---- MODULE Spec2Model ----
(***************************************************************************)
(* Model of src/doritostats/analytic_utils.py: the lineup optimizer        *)
(* (get_top_players, get_best_lineup, get_lineup_efficiency) and the luck   *)
(* index estimator (get_weekly_finish, get_weekly_luck_index,               *)
(* get_season_luck_indices).                                                *)
(*                                                                         *)
(* Python lists are objects: `heap` maps a list reference to its contents, *)
(* so that copy() and list.remove() act on the object they really act on.  *)
(* Points and scores are integers (a subset of the floats the code takes). *)
(***************************************************************************)
EXTENDS Integers, Sequences, FiniteSets, TLC

VARIABLES heap, roster_settings, pc, saved_roster, slots, i, best_lineup,
          best_slots, picked, max_score, efficiency, err, top_call, top_ret,
          league, luck_call, luck_ret,
          top_again, best_trio, stats_list, high_first, leader_ret

lineup_vars_but_pc == <<heap, roster_settings, saved_roster, slots, i,
                        best_lineup, best_slots, picked, max_score, efficiency,
                        err, top_call, top_ret>>

luck_vars == <<league, luck_call, luck_ret>>

trio_vars == <<top_again, best_trio>>

leader_vars == <<stats_list, high_first, leader_ret>>

vars == <<heap, roster_settings, pc, saved_roster, slots, i, best_lineup,
          best_slots, picked, max_score, efficiency, err, top_call, top_ret,
          league, luck_call, luck_ret,
          top_again, best_trio, stats_list, high_first, leader_ret>>

-----------------------------------------------------------------------------
(* Bounds of the lineup model *)

MaxPlayers == 2

MaxStarters == 2

MaxPts == 1

MaxCount == 1

(* Slot labels of the starting-slot requirement mapping. *)
StartSlots == {"RB", "RB/WR", "WR/TE"}

(* eligibleSlots of a player, by the player's position. *)
EligibleSlotSets ==
    { {"RB", "RB/WR", "BE", "IR"},
      {"WR", "RB/WR", "WR/TE", "BE", "IR"},
      {"TE", "WR/TE", "BE", "IR"} }

Points == 0..MaxPts

-----------------------------------------------------------------------------
(* Helpers *)

Min(a, b) == IF a <= b THEN a ELSE b

Range(s) == {s[k] : k \in DOMAIN s}

RECURSIVE SumPoints(_)
(* np.sum([player.points for player in players]) *)
SumPoints(players) ==
    IF players = <<>> THEN 0
    ELSE players[1].points + SumPoints(Tail(players))

SliceShort(s, n) == SubSeq(s, 1, Min(n - 1, Len(s)))

(* s[:n] for n >= 0 *)
Slice(s, n) == SubSeq(s, 1, Min(n, Len(s)))

(* Sequences over S without repetition, of every length *)
DistinctSeqs(S) ==
    { s \in UNION {[1..k -> S] : k \in 0..Cardinality(S)} :
        \A a, b \in DOMAIN s : a # b => s[a] # s[b] }

-----------------------------------------------------------------------------
(* sorted(): Python's sort is stable, also with reverse=True *)

InsertByPointsUnstable(sorted, x) ==
    LET before == {k \in 1..Len(sorted) : sorted[k].points > x.points}
        n == Cardinality(before)
    IN SubSeq(sorted, 1, n) \o <<x>> \o SubSeq(sorted, n + 1, Len(sorted))

(* Insert x into a sequence sorted by points descending, behind every     *)
(* element with the same points.                                           *)
InsertByPoints(sorted, x) ==
    LET before == {k \in 1..Len(sorted) : sorted[k].points >= x.points}
        n == Cardinality(before)
    IN SubSeq(sorted, 1, n) \o <<x>> \o SubSeq(sorted, n + 1, Len(sorted))

RECURSIVE SortedByPoints(_)
(* sorted(players, key=lambda x: x.points, reverse=True) *)
SortedByPoints(players) ==
    IF players = <<>> THEN <<>>
    ELSE InsertByPoints(SortedByPoints(SubSeq(players, 1, Len(players) - 1)),
                        players[Len(players)])

(* Insert label x into a sequence sorted by length descending *)
InsertByLenDescending(sorted, x) ==
    LET before == {k \in 1..Len(sorted) : Len(sorted[k]) >= Len(x)}
        n == Cardinality(before)
    IN SubSeq(sorted, 1, n) \o <<x>> \o SubSeq(sorted, n + 1, Len(sorted))

(* Insert label x into a sequence sorted by length ascending, behind      *)
(* every label of the same length.                                         *)
InsertByLen(sorted, x) ==
    LET before == {k \in 1..Len(sorted) : Len(sorted[k]) <= Len(x)}
        n == Cardinality(before)
    IN SubSeq(sorted, 1, n) \o <<x>> \o SubSeq(sorted, n + 1, Len(sorted))

RECURSIVE SortedByLen(_)
(* sorted(keys, key=len) *)
SortedByLen(keys) ==
    IF keys = <<>> THEN <<>>
    ELSE InsertByLen(SortedByLen(SubSeq(keys, 1, Len(keys) - 1)),
                     keys[Len(keys)])

-----------------------------------------------------------------------------
(* get_top_players *)

eligible_players(lineup, slot) ==
    SelectSeq(lineup, LAMBDA player : slot \in player.eligibleSlots)

get_top_players(lineup, slot, n) ==
    Slice(SortedByPoints(eligible_players(lineup, slot)), n)

-----------------------------------------------------------------------------
(* list operations *)

copy_alias(h, ref) == [ref |-> ref, heap |-> h]

(* copy(lineup): a new list object with the same elements *)
copy(h, ref) == [ref |-> "cpy", heap |-> [h EXCEPT !.cpy = h[ref]]]

(* list.remove(x): drops the first element equal to x; ValueError if none *)
list_remove(s, x) ==
    IF \E k \in 1..Len(s) : s[k] = x
    THEN LET f == CHOOSE k \in 1..Len(s) :
                     s[k] = x /\ \A j \in 1..(k - 1) : s[j] # x
         IN [ok |-> TRUE, list |-> SubSeq(s, 1, f - 1) \o SubSeq(s, f + 1, Len(s))]
    ELSE [ok |-> FALSE, list |-> s]

remove_none(s, players) == [ok |-> TRUE, list |-> s]

RECURSIVE remove_all(_, _)
(* for player in best_players: saved_roster.remove(player) *)
remove_all(s, players) ==
    IF players = <<>> THEN [ok |-> TRUE, list |-> s]
    ELSE LET r == list_remove(s, players[1])
         IN IF r.ok THEN remove_all(r.list, Tail(players)) ELSE r

-----------------------------------------------------------------------------
(* Inputs *)

Player(id, points, eligibleSlots, slot_position) ==
    [id |-> id, points |-> points, eligibleSlots |-> eligibleSlots,
     slot_position |-> slot_position]

(* Lineups of at most n players, every player on the bench *)
BenchLineups(n) ==
    UNION { { [k \in 1..len |-> Player(k, f[k][1], f[k][2], "BE")] :
                f \in [1..len -> Points \X EligibleSlotSets] } : len \in 0..n }

(* Lineups of at most n players, each in a slot it is eligible for *)
FieldedLineups(n) ==
    UNION { { [k \in 1..len |-> Player(k, f[k][1], f[k][2], f[k][3])] :
                f \in { g \in [1..len -> Points \X EligibleSlotSets
                                          \X (StartSlots \cup {"BE", "IR"})] :
                          \A k \in 1..len : g[k][3] \in g[k][2] } } :
            len \in 0..n }

(* league.roster_settings["starting_roster_slots"]: a dict, keys in        *)
(* insertion order                                                          *)
RosterSettings ==
    UNION { { [keys |-> ks, num |-> nm] : nm \in [Range(ks) -> 0..MaxCount] } :
            ks \in DistinctSeqs(StartSlots) }

NoLeague == [teams |-> <<>>]

LineupIdle(lineups) ==
    /\ \E l \in lineups : heap = [arg |-> l, cpy |-> <<>>]
    /\ roster_settings \in RosterSettings
    /\ pc = "idle"
    /\ saved_roster = "none"
    /\ slots = <<>>
    /\ i = 0
    /\ best_lineup = <<>>
    /\ best_slots = <<>>
    /\ picked = <<>>
    /\ max_score = 0
    /\ efficiency = [kind |-> "none"]
    /\ err = "none"
    /\ top_call = [slot |-> "none", n |-> 0]
    /\ top_ret = <<>>
    /\ top_again = <<>>
    /\ best_trio = [kind |-> "none"]

LuckUnused ==
    /\ league = NoLeague
    /\ luck_call = [fn |-> "none"]
    /\ luck_ret = [kind |-> "none"]

LeaderUnused ==
    /\ stats_list = <<>>
    /\ high_first = TRUE
    /\ leader_ret = [kind |-> "none"]

Init == LineupIdle(BenchLineups(MaxPlayers)) /\ LuckUnused /\ LeaderUnused

InitEff == LineupIdle(FieldedLineups(MaxStarters)) /\ LuckUnused /\ LeaderUnused

-----------------------------------------------------------------------------
(* Operations of the lineup optimizer *)

(* get_top_players(lineup, slot, n), called on the fielded lineup *)
Call_get_top_players(slot, n) ==
    /\ pc = "idle"
    /\ top_call' = [slot |-> slot, n |-> n]
    /\ top_ret' = get_top_players(heap.arg, slot, n)
    /\ pc' = "top_done"
    /\ UNCHANGED <<heap, roster_settings, saved_roster, slots, i, best_lineup,
                   best_slots, picked, max_score, efficiency, err>>
    /\ UNCHANGED luck_vars
    /\ UNCHANGED trio_vars
    /\ UNCHANGED leader_vars

(* get_top_players applied to its own result with the same slot and n *)
Call_get_top_players_again ==
    /\ pc = "top_done"
    /\ top_again' = get_top_players(top_ret, top_call.slot, top_call.n)
    /\ pc' = "top_again"
    /\ UNCHANGED <<heap, roster_settings, saved_roster, slots, i, best_lineup,
                   best_slots, picked, max_score, efficiency, err, top_call,
                   top_ret, best_trio>>
    /\ UNCHANGED luck_vars
    /\ UNCHANGED leader_vars

(* get_best_lineup, entry: lines 37-42 *)
Enter_get_best_lineup(caller) ==
    /\ pc = "idle"
    /\ LET c == copy(heap, "arg")
       IN /\ heap' = c.heap
          /\ saved_roster' = c.ref
    /\ best_lineup' = <<>>
    /\ best_slots' = <<>>
    /\ picked' = <<>>
    /\ slots' = SortedByLen(roster_settings.keys)
    /\ i' = 1
    /\ pc' = caller
    /\ UNCHANGED <<roster_settings, max_score, efficiency, err, top_call, top_ret>>
    /\ UNCHANGED luck_vars
    /\ UNCHANGED trio_vars
    /\ UNCHANGED leader_vars

Call_get_best_lineup == Enter_get_best_lineup("best_loop")

Call_get_lineup_efficiency == Enter_get_best_lineup("eff_loop")

(* One iteration of the loop over the slots: lines 42-49 *)
SlotIteration ==
    /\ pc \in {"best_loop", "eff_loop"}
    /\ i <= Len(slots)
    /\ LET slot == slots[i]
           num_players == roster_settings.num[slot]
           best_players == get_top_players(heap[saved_roster], slot, num_players)
           removed == remove_all(heap[saved_roster], best_players)
       IN /\ best_lineup' = best_lineup \o best_players
          /\ best_slots' = best_slots \o [k \in 1..Len(best_players) |-> slot]
          /\ picked' = Append(picked,
                 [slot |-> slot, num_players |-> num_players,
                  selected |-> Len(best_players)])
          /\ heap' = [heap EXCEPT ![saved_roster] = removed.list]
          /\ IF removed.ok
             THEN /\ i' = i + 1
                  /\ UNCHANGED <<pc, err>>
             ELSE /\ pc' = "raised"
                  /\ err' = "ValueError"
                  /\ UNCHANGED i
    /\ UNCHANGED <<roster_settings, saved_roster, slots, max_score, efficiency,
                   top_call, top_ret>>
    /\ UNCHANGED luck_vars
    /\ UNCHANGED trio_vars
    /\ UNCHANGED leader_vars

(* return np.sum([player.points for player in best_lineup]): line 51 *)
Return_get_best_lineup ==
    /\ pc \in {"best_loop", "eff_loop"}
    /\ i > Len(slots)
    /\ max_score' = SumPoints(best_lineup)
    /\ pc' = IF pc = "best_loop" THEN "best_done" ELSE "eff_div"
    /\ UNCHANGED <<heap, roster_settings, saved_roster, slots, i, best_lineup,
                   best_slots, picked, efficiency, err, top_call, top_ret>>
    /\ UNCHANGED luck_vars
    /\ UNCHANGED trio_vars
    /\ UNCHANGED leader_vars

(* Players counted by get_lineup_efficiency: line 67 *)
starters(lineup) ==
    SelectSeq(lineup, LAMBDA player : player.slot_position \notin {"BE", "IR"})

(* numpy true division: x / 0 is nan, inf or -inf (with a warning) *)
np_divide(a, b) ==
    IF b # 0 THEN [kind |-> "num", num |-> a, den |-> b]
    ELSE IF a = 0 THEN [kind |-> "nan"]
    ELSE IF a > 0 THEN [kind |-> "inf"]
    ELSE [kind |-> "-inf"]

(* get_lineup_efficiency after the call of get_best_lineup: lines 66-69 *)
Return_get_lineup_efficiency ==
    /\ pc = "eff_div"
    /\ LET real_score == SumPoints(starters(heap.arg))
       IN efficiency' = np_divide(real_score, max_score)
    /\ pc' = "eff_done"
    /\ UNCHANGED <<heap, roster_settings, saved_roster, slots, i, best_lineup,
                   best_slots, picked, max_score, err, top_call, top_ret>>
    /\ UNCHANGED luck_vars
    /\ UNCHANGED trio_vars
    /\ UNCHANGED leader_vars

Next ==
    \/ \E slot \in StartSlots, n \in 0..MaxPlayers : Call_get_top_players(slot, n)
    \/ Call_get_top_players_again
    \/ Call_get_best_lineup
    \/ SlotIteration
    \/ Return_get_best_lineup

Spec == Init /\ [][Next]_vars

NextEff ==
    \/ Call_get_lineup_efficiency
    \/ SlotIteration
    \/ Return_get_best_lineup
    \/ Return_get_lineup_efficiency

SpecEff == InitEff /\ [][NextEff]_vars

-----------------------------------------------------------------------------
(* Bounds of the league model *)

FinishTeams == 4

FinishWeeks == 1

(* Weekly scores of the leagues that get_weekly_finish is applied to *)
FinishScores == {80, 90, 100}

LuckTeams == 3

LuckWeeks == 2

(* Weekly scores of the leagues that the luck index is computed for *)
LuckScores == {0, 1}

-----------------------------------------------------------------------------
(* Exact numbers.  A rational is <<numerator, denominator>> in lowest      *)
(* terms with a positive denominator.  A number is either nan or a finite  *)
(* sum of rational multiples of square roots of distinct square-free       *)
(* integers, kept as a set of <<radicand, coefficient>> pairs with         *)
(* non-zero coefficients; such sums are equal exactly when the sets are.   *)

Abs(a) == IF a < 0 THEN -a ELSE a

RECURSIVE GCD(_, _)
GCD(a, b) == IF b = 0 THEN a ELSE GCD(b, a % b)

Rat(n, d) ==
    LET g == GCD(Abs(n), Abs(d))
        sg == IF d < 0 THEN -1 ELSE 1
    IN <<sg * (n \div g), sg * (d \div g)>>

RatAdd(p, q) == Rat(p[1] * q[2] + q[1] * p[2], p[2] * q[2])

RatSub(p, q) == Rat(p[1] * q[2] - q[1] * p[2], p[2] * q[2])

RatMul(p, q) == Rat(p[1] * q[1], p[2] * q[2])

RatDiv(p, q) == Rat(p[1] * q[2], p[2] * q[1])

NaN == [kind |-> "nan"]

Num(terms) == [kind |-> "num", terms |-> terms]

Terms(rad, coef) == IF coef[1] = 0 THEN {} ELSE {<<rad, coef>>}

FromRat(r) == Num(Terms(1, r))

Zero == Num({})

Coef(terms, rad) ==
    IF \E t \in terms : t[1] = rad
    THEN (CHOOSE t \in terms : t[1] = rad)[2]
    ELSE <<0, 1>>

NumAdd(a, b) ==
    IF a.kind = "nan" \/ b.kind = "nan" THEN NaN
    ELSE Num(UNION { Terms(rad, RatAdd(Coef(a.terms, rad), Coef(b.terms, rad))) :
                     rad \in {t[1] : t \in a.terms \cup b.terms} })

NumScale(a, r) ==
    IF a.kind = "nan" THEN NaN
    ELSE Num(UNION { Terms(t[1], RatMul(t[2], r)) : t \in a.terms })

NumSub(a, b) == NumAdd(a, NumScale(b, <<-1, 1>>))

(* The largest s with s * s dividing n, for n >= 1 *)
SquarePart(n) ==
    CHOOSE s \in 1..n :
        /\ n % (s * s) = 0
        /\ \A t \in (s + 1)..n : n % (t * t) # 0

(* r / sqrt(v) for rationals r and v > 0:                                  *)
(* sqrt(v) = sqrt(p/q) = s * sqrt(f) / q with p * q = s * s * f, so        *)
(* r / sqrt(v) = (r * q / (s * f)) * sqrt(f).                              *)
DivBySqrt(r, v) ==
    LET pq == v[1] * v[2]
        sq == SquarePart(pq)
        f == pq \div (sq * sq)
    IN Num(Terms(f, RatMul(r, Rat(v[2], sq * f))))

-----------------------------------------------------------------------------
(* numpy and list helpers of the luck index *)

RECURSIVE SumSeq(_)
SumSeq(xs) == IF xs = <<>> THEN 0 ELSE xs[1] + SumSeq(Tail(xs))

(* np.mean(xs) *)
np_mean(xs) == Rat(SumSeq(xs), Len(xs))

(* np.std(xs) squared: the mean of the squared deviations from the mean *)
np_var(xs) ==
    LET sq == [k \in 1..Len(xs) |-> xs[k] * xs[k]]
    IN RatSub(Rat(SumSeq(sq), Len(xs)), RatMul(np_mean(xs), np_mean(xs)))

(* (score - avg) / std in numpy: a zero std comes with a zero numerator,  *)
(* and 0.0 / 0.0 is nan (with a warning), not an exception.                *)
z_score(score, avg, var) ==
    IF var[1] = 0 THEN NaN
    ELSE DivBySqrt(RatSub(<<score, 1>>, avg), var)

InsertDesc(sorted, x) ==
    LET n == Cardinality({k \in 1..Len(sorted) : sorted[k] >= x})
    IN SubSeq(sorted, 1, n) \o <<x>> \o SubSeq(sorted, n + 1, Len(sorted))

RECURSIVE SortedDesc(_)
(* sorted(league_scores, reverse=True) *)
SortedDesc(xs) ==
    IF xs = <<>> THEN <<>>
    ELSE InsertDesc(SortedDesc(SubSeq(xs, 1, Len(xs) - 1)), xs[Len(xs)])

list_index_last(xs, x) ==
    CHOOSE k \in 1..Len(xs) : xs[k] = x /\ \A j \in (k + 1)..Len(xs) : xs[j] # x

(* list.index(x), counted from 1: the first position of x *)
list_index(xs, x) ==
    CHOOSE k \in 1..Len(xs) : xs[k] = x /\ \A j \in 1..(k - 1) : xs[j] # x

-----------------------------------------------------------------------------
(* Luck index estimator *)

w_sched == 7

w_team == 2

w_opp == 1

(* get_weekly_finish: lines 72-76; scores[week - 1] is the week-th entry  *)
get_weekly_finish(lg, team, week) ==
    LET league_scores == [t \in 1..Len(lg.teams) |-> lg.teams[t].scores[week]]
    IN (list_index(SortedDesc(league_scores), lg.teams[team].scores[week]) - 1) + 1

(* A schedule component whose losing term leaves the opponent out of the *)
(* count, as the tie term does.                                           *)
schedule_luck_short(rank, opp_rank, num_teams) ==
    IF rank < opp_rank
    THEN Rat(w_sched * (rank - 1), num_teams - 1)
    ELSE IF rank > opp_rank
    THEN Rat(-w_sched * (num_teams - rank - 1), num_teams - 1)
    ELSE IF 2 * rank < num_teams
    THEN Rat(-w_sched * (num_teams - rank - 1), 2 * (num_teams - 1))
    ELSE Rat(w_sched * (rank - 1), 2 * (num_teams - 1))

(* The schedule component: lines 126-139 *)
schedule_luck(rank, opp_rank, num_teams) ==
    IF rank < opp_rank
    THEN Rat(w_sched * (rank - 1), num_teams - 1)
    ELSE IF rank > opp_rank
    THEN Rat(-w_sched * (num_teams - rank), num_teams - 1)
    ELSE IF 2 * rank < num_teams
    THEN Rat(-w_sched * (num_teams - rank - 1), 2 * (num_teams - 1))
    ELSE Rat(w_sched * (rank - 1), 2 * (num_teams - 1))

(* The value of luck_index after the schedule branches, lines 114-139 *)
schedule_term(lg, team, week) ==
    schedule_luck(get_weekly_finish(lg, team, week),
                  get_weekly_finish(lg, lg.teams[team].schedule[week], week),
                  Len(lg.teams))

(* get_weekly_luck_index with the opponent's z-score computed when the    *)
(* opponent's own deviation is non-zero.                                   *)
get_weekly_luck_index_opp_gate(lg, team, week) ==
    LET opp == lg.teams[team].schedule[week]
        num_teams == Len(lg.teams)
        rank == get_weekly_finish(lg, team, week)
        opp_rank == get_weekly_finish(lg, opp, week)
        luck_sched == FromRat(schedule_luck(rank, opp_rank, num_teams))
        team_score == lg.teams[team].scores[week]
        team_avg == np_mean(SubSeq(lg.teams[team].scores, 1, week))
        team_var == np_var(SubSeq(lg.teams[team].scores, 1, week))
        luck_team ==
            IF team_var[1] # 0
            THEN NumAdd(luck_sched,
                        NumScale(z_score(team_score, team_avg, team_var),
                                 Rat(w_team, 2)))
            ELSE luck_sched
        opp_score == lg.teams[opp].scores[week]
        opp_avg == np_mean(SubSeq(lg.teams[opp].scores, 1, week))
        opp_var == np_var(SubSeq(lg.teams[opp].scores, 1, week))
        luck_opp ==
            IF opp_var[1] # 0
            THEN NumSub(luck_team,
                        NumScale(z_score(opp_score, opp_avg, opp_var),
                                 Rat(w_opp, 2)))
            ELSE luck_team
    IN NumScale(luck_opp, Rat(1, w_sched + w_team + w_opp))

(* get_weekly_luck_index: lines 105-165 *)
get_weekly_luck_index(lg, team, week) ==
    LET opp == lg.teams[team].schedule[week]
        num_teams == Len(lg.teams)
        rank == get_weekly_finish(lg, team, week)
        opp_rank == get_weekly_finish(lg, opp, week)
        luck_sched == FromRat(schedule_luck(rank, opp_rank, num_teams))
        team_score == lg.teams[team].scores[week]
        team_avg == np_mean(SubSeq(lg.teams[team].scores, 1, week))
        team_var == np_var(SubSeq(lg.teams[team].scores, 1, week))
        luck_team ==
            IF team_var[1] # 0
            THEN NumAdd(luck_sched,
                        NumScale(z_score(team_score, team_avg, team_var),
                                 Rat(w_team, 2)))
            ELSE luck_sched
        opp_score == lg.teams[opp].scores[week]
        opp_avg == np_mean(SubSeq(lg.teams[opp].scores, 1, week))
        opp_var == np_var(SubSeq(lg.teams[opp].scores, 1, week))
        luck_opp ==
            IF team_var[1] # 0
            THEN NumSub(luck_team,
                        NumScale(z_score(opp_score, opp_avg, opp_var),
                                 Rat(w_opp, 2)))
            ELSE luck_team
    IN NumScale(luck_opp, Rat(1, w_sched + w_team + w_opp))

RECURSIVE season_loop_wk(_, _, _, _)
(* A loop that passes its own variable wk to the weekly computation *)
season_loop_wk(lg, luck_indices, wk, week) ==
    IF wk > week THEN luck_indices
    ELSE season_loop_wk(lg,
             [team \in DOMAIN luck_indices |->
                 NumAdd(luck_indices[team], get_weekly_luck_index(lg, team, wk))],
             wk + 1, week)

RECURSIVE season_loop(_, _, _, _)
(* The loop of get_season_luck_indices over wk = from..week: lines        *)
(* 171-174; every iteration calls get_weekly_luck_index with `week`.       *)
season_loop(lg, luck_indices, wk, week) ==
    IF wk > week THEN luck_indices
    ELSE season_loop(lg,
             [team \in DOMAIN luck_indices |->
                 NumAdd(luck_indices[team], get_weekly_luck_index(lg, team, week))],
             wk + 1, week)

(* get_season_luck_indices: lines 168-176 *)
get_season_luck_indices(lg, week) ==
    season_loop(lg, [team \in 1..Len(lg.teams) |-> Zero], 1, week)

-----------------------------------------------------------------------------
(* Leagues *)

(* The opponent of team t in week w of a rotating schedule: every week    *)
(* pairs the teams off, opponents are mutual, and a team without a matchup *)
(* that week has itself as opponent.                                       *)
Opponent(t, w, n) == ((w - t) % n) + 1

(* The league of n teams that have played `weeks` weeks with the table   *)
(* of scores sc.                                                           *)
League(n, weeks, sc) ==
    [teams |-> [t \in 1..n |->
                  [id |-> t,
                   scores |-> [w \in 1..weeks |-> sc[t][w]],
                   schedule |-> [w \in 1..weeks |-> Opponent(t, w, n)]]]]

(* Every table of scores drawn from `scores` *)
ScoreTables(n, weeks, scores) == [1..n -> [1..weeks -> scores]]

LineupUnused == LineupIdle({<<>>}) /\ roster_settings.keys = <<>>

InitFinish ==
    /\ LineupUnused
    /\ LeaderUnused
    /\ \E sc \in ScoreTables(FinishTeams, FinishWeeks, FinishScores) :
          league = League(FinishTeams, FinishWeeks, sc)
    /\ luck_call = [fn |-> "none"]
    /\ luck_ret = [kind |-> "none"]

InitLuck ==
    /\ LineupUnused
    /\ LeaderUnused
    /\ \E sc \in ScoreTables(LuckTeams, LuckWeeks, LuckScores) :
          league = League(LuckTeams, LuckWeeks, sc)
    /\ luck_call = [fn |-> "none"]
    /\ luck_ret = [kind |-> "none"]

(* get_weekly_finish(league, team, week) *)
Call_get_weekly_finish(team, week) ==
    /\ pc = "idle"
    /\ luck_call' = [fn |-> "get_weekly_finish", team |-> team, week |-> week]
    /\ luck_ret' = [kind |-> "rank", rank |-> get_weekly_finish(league, team, week)]
    /\ pc' = "finish_done"
    /\ UNCHANGED league
    /\ UNCHANGED lineup_vars_but_pc
    /\ UNCHANGED trio_vars
    /\ UNCHANGED leader_vars

(* get_weekly_luck_index(league, team, week) *)
Call_get_weekly_luck_index(team, week) ==
    /\ pc = "idle"
    /\ luck_call' = [fn |-> "get_weekly_luck_index", team |-> team, week |-> week,
                     luck_sched |-> schedule_term(league, team, week)]
    /\ luck_ret' = get_weekly_luck_index(league, team, week)
    /\ pc' = "luck_done"
    /\ UNCHANGED league
    /\ UNCHANGED lineup_vars_but_pc
    /\ UNCHANGED trio_vars
    /\ UNCHANGED leader_vars

(* get_season_luck_indices(league, week) *)
Call_get_season_luck_indices(week) ==
    /\ pc = "idle"
    /\ luck_call' = [fn |-> "get_season_luck_indices", week |-> week]
    /\ luck_ret' = [kind |-> "dict", luck_indices |-> get_season_luck_indices(league, week)]
    /\ pc' = "season_done"
    /\ UNCHANGED league
    /\ UNCHANGED lineup_vars_but_pc
    /\ UNCHANGED trio_vars
    /\ UNCHANGED leader_vars

NextFinish ==
    \E team \in 1..Len(league.teams), week \in 1..Len(league.teams[1].scores) :
        Call_get_weekly_finish(team, week)

SpecFinish == InitFinish /\ [][NextFinish]_vars

NextLuck ==
    \/ \E team \in 1..Len(league.teams), week \in 1..Len(league.teams[1].scores) :
          Call_get_weekly_luck_index(team, week)
    \/ \E week \in 0..Len(league.teams[1].scores) :
          Call_get_season_luck_indices(week)

SpecLuck == InitLuck /\ [][NextLuck]_vars

(* Leagues in their first week, with three levels of score, so that every *)
(* pair of ranks meets.                                                    *)
ScheduleScores == {0, 1, 2}

InitSchedule ==
    /\ LineupUnused
    /\ LeaderUnused
    /\ \E sc \in ScoreTables(LuckTeams, 1, ScheduleScores) :
          league = League(LuckTeams, 1, sc)
    /\ luck_call = [fn |-> "none"]
    /\ luck_ret = [kind |-> "none"]

SpecSchedule == InitSchedule /\ [][NextLuck]_vars

-----------------------------------------------------------------------------
(* Legal assignments of the pool to the starting slots *)

NoSlot == "none"

(* Every way of putting each player of the lineup in at most one slot it  *)
(* is eligible for, with at most the required count per slot.              *)
LegalAssignments(lineup, rs) ==
    { a \in [1..Len(lineup) -> Range(rs.keys) \cup {NoSlot}] :
        /\ \A k \in 1..Len(lineup) :
              a[k] # NoSlot => a[k] \in lineup[k].eligibleSlots
        /\ \A s \in Range(rs.keys) :
              Cardinality({k \in 1..Len(lineup) : a[k] = s}) <= rs.num[s] }

RECURSIVE SumOver(_, _)
SumOver(S, f) ==
    IF S = {} THEN 0
    ELSE LET x == CHOOSE y \in S : TRUE IN f[x] + SumOver(S \ {x}, f)

AssignmentTotal(lineup, a) ==
    SumOver({k \in 1..Len(lineup) : a[k] # NoSlot},
            [k \in 1..Len(lineup) |-> lineup[k].points])

RequiredTotal(rs) == SumOver(Range(rs.keys), rs.num)

CompleteAssignmentExists(lineup, rs) ==
    \E a \in LegalAssignments(lineup, rs) :
        \A s \in Range(rs.keys) :
            Cardinality({k \in 1..Len(lineup) : a[k] = s}) = rs.num[s]

(* The starters of the fielded lineup form a legal assignment *)
StartersLegal(lineup, rs) ==
    /\ \A k \in 1..Len(lineup) :
          lineup[k].slot_position \notin {"BE", "IR"} =>
              /\ lineup[k].slot_position \in lineup[k].eligibleSlots
              /\ lineup[k].slot_position \in Range(rs.keys)
    /\ \A s \in Range(rs.keys) :
          Cardinality({k \in 1..Len(lineup) : lineup[k].slot_position = s})
              <= rs.num[s]

-----------------------------------------------------------------------------
(* C1: the total returned by get_best_lineup is at least the total of     *)
(* every legal assignment drawn from the same pool.                        *)
C1_BestIsOptimal ==
    pc = "best_done" =>
        \A a \in LegalAssignments(heap.arg, roster_settings) :
            max_score >= AssignmentTotal(heap.arg, a)

(* C2: when the starters form a legal assignment and the best-lineup      *)
(* total is positive, get_lineup_efficiency returns at most 1.0.           *)
C2_EfficiencyAtMostOne ==
    (/\ pc = "eff_done"
     /\ StartersLegal(heap.arg, roster_settings)
     /\ max_score > 0)
    => /\ efficiency.kind = "num"
       /\ efficiency.num <= efficiency.den

(* C3: at every point of get_best_lineup every selected player is a       *)
(* player of the input lineup, eligible for the slot it was selected for,  *)
(* and no player is selected twice.                                        *)
C3_EligibleAndDistinct ==
    /\ Len(best_slots) = Len(best_lineup)
    /\ \A k \in 1..Len(best_lineup) :
          /\ best_lineup[k] \in Range(heap.arg)
          /\ best_slots[k] \in best_lineup[k].eligibleSlots
    /\ \A a, b \in 1..Len(best_lineup) :
          a # b => best_lineup[a].id # best_lineup[b].id

C3_Witness ==
    /\ pc = "best_done"
    /\ Len(best_lineup) >= 2
    /\ best_slots[1] # best_slots[2]
    /\ best_slots[2] \in best_lineup[1].eligibleSlots

(* C4: when the pool admits a complete legal assignment, the best lineup  *)
(* has as many players as the required counts sum to.                      *)
C4_CompleteFill ==
    (pc = "best_done" /\ CompleteAssignmentExists(heap.arg, roster_settings))
    => Len(best_lineup) = RequiredTotal(roster_settings)

(* Number of players selected before the j-th slot was processed *)
SelectedBefore(j) ==
    SumOver(1..(j - 1), [m \in 1..Len(picked) |-> picked[m].selected])

(* Players of the pool eligible for the j-th slot and not selected before *)
(* the j-th slot was processed.                                            *)
RemainingEligible(j) ==
    { k \in 1..Len(heap.arg) :
        /\ picked[j].slot \in heap.arg[k].eligibleSlots
        /\ heap.arg[k] \notin Range(SubSeq(best_lineup, 1, SelectedBefore(j))) }

(* C5: get_best_lineup raises no error, and for every slot it selects     *)
(* min(required count, remaining eligible players) players: all of the     *)
(* remaining eligible players when they are fewer than required.           *)
C5_UnderFill ==
    /\ err = "none"
    /\ pc # "raised"
    /\ \A j \in 1..Len(picked) :
          /\ picked[j].num_players = roster_settings.num[picked[j].slot]
          /\ picked[j].selected =
                Min(picked[j].num_players, Cardinality(RemainingEligible(j)))
          /\ picked[j].selected < picked[j].num_players =>
                \A k \in RemainingEligible(j) :
                    heap.arg[k] \in Range(SubSeq(best_lineup, SelectedBefore(j) + 1,
                                      SelectedBefore(j) + picked[j].selected))

C5_Witness ==
    /\ pc = "best_done"
    /\ \E j \in 1..Len(picked) :
          /\ picked[j].selected < picked[j].num_players
          /\ \E k \in 1..Len(heap.arg) : picked[j].slot \in heap.arg[k].eligibleSlots

(* p comes before q in the order by points descending, ties in lineup     *)
(* order.                                                                  *)
RanksBefore(p, q) ==
    \/ p.points > q.points
    \/ p.points = q.points /\ p.id < q.id

(* C6: get_top_players returns the first n (all, if fewer) of the players *)
(* eligible for the slot, by points descending, equal points in lineup     *)
(* order; every eligible player left out has at most the points of every   *)
(* player returned.                                                        *)
C6_TopPlayers ==
    pc = "top_done" =>
        LET eligible == {p \in Range(heap.arg) : top_call.slot \in p.eligibleSlots}
        IN /\ Len(top_ret) = Min(top_call.n, Cardinality(eligible))
           /\ Range(top_ret) \subseteq eligible
           /\ \A a, b \in 1..Len(top_ret) :
                 a < b => RanksBefore(top_ret[a], top_ret[b])
           /\ \A p \in eligible \ Range(top_ret) :
                 \A q \in Range(top_ret) :
                     RanksBefore(q, p) /\ p.points <= q.points

(* Two eligible players with equal points and n = 1: the one that comes  *)
(* first in the lineup is returned, the other is left out.                 *)
C6_Witness ==
    /\ pc = "top_done"
    /\ top_call.n = 1
    /\ Len(top_ret) = 1
    /\ \E p \in Range(heap.arg) :
          /\ top_call.slot \in p.eligibleSlots
          /\ p \notin Range(top_ret)
          /\ p.points = top_ret[1].points
          /\ p.id > top_ret[1].id

(* C7: get_best_lineup leaves the input lineup and the roster slot        *)
(* requirements as they were: no step changes either.                      *)
C7_InputsUnchanged ==
    [][heap'.arg = heap.arg /\ roster_settings' = roster_settings]_vars

C7_Witness ==
    /\ pc = "best_done"
    /\ Len(best_lineup) > 0
    /\ Len(heap.cpy) < Len(heap.arg)

(* C8: when the best-lineup total is 0, get_lineup_efficiency returns a   *)
(* defined number.                                                         *)
C8_ZeroTotalDefined ==
    (pc = "eff_done" /\ max_score = 0) => efficiency.kind = "num"

(* Number of league teams scoring strictly more than the team that week *)
StrictlyGreater(lg, team, week) ==
    Cardinality({t \in 1..Len(lg.teams) :
                    lg.teams[t].scores[week] > lg.teams[team].scores[week]})

(* C9: get_weekly_finish returns 1 plus the number of league teams with a *)
(* strictly greater score that week; equal scores get equal ranks and the  *)
(* rank lies in 1..league size.                                            *)
C9_WeeklyFinish ==
    pc = "finish_done" =>
        /\ luck_ret.rank = 1 + StrictlyGreater(league, luck_call.team, luck_call.week)
        /\ luck_ret.rank \in 1..Len(league.teams)
        /\ \A t \in 1..Len(league.teams) :
              league.teams[t].scores[luck_call.week]
                  = league.teams[luck_call.team].scores[luck_call.week]
              => get_weekly_finish(league, t, luck_call.week) = luck_ret.rank

(* Scores 100, 90, 90, 80: the last team, behind a tie for second place,  *)
(* is ranked 4, and the others 1, 2, 2.                                    *)
C9_Witness ==
    /\ pc = "finish_done"
    /\ LET w == luck_call.week
       IN /\ league.teams[1].scores[w] = 100
          /\ league.teams[2].scores[w] = 90
          /\ league.teams[3].scores[w] = 90
          /\ league.teams[4].scores[w] = 80
          /\ luck_call.team = 4
          /\ luck_ret.rank = 4
          /\ get_weekly_finish(league, 2, w) = 2
          /\ get_weekly_finish(league, 3, w) = 2
          /\ get_weekly_finish(league, 1, w) = 1

RECURSIVE WeeklySum(_, _, _)
(* The sum over wk = 1..week of the team's luck index of week wk *)
WeeklySum(lg, team, week) ==
    IF week = 0 THEN Zero
    ELSE NumAdd(WeeklySum(lg, team, week - 1), get_weekly_luck_index(lg, team, week))

(* C10: get_season_luck_indices returns one entry per league team, the    *)
(* sum over wk = 1..week of the team's weekly luck index of week wk.       *)
C10_SeasonIsSumOfWeeks ==
    pc = "season_done" =>
        /\ DOMAIN luck_ret.luck_indices = 1..Len(league.teams)
        /\ \A team \in 1..Len(league.teams) :
              luck_ret.luck_indices[team] = WeeklySum(league, team, luck_call.week)

-----------------------------------------------------------------------------
(* get_best_trio *)

TrioPlayers == 5

(* Points in thousandths of a point: 1.004 and 2.008 *)
TrioPoints == {1004, 2008}

TrioEligibleSlotSets == EligibleSlotSets \cup { {"QB", "OP", "BE", "IR"} }

(* The lineup of benched players with the points and eligible slots f *)
TrioLineup(f) == [k \in DOMAIN f |-> Player(k, f[k][1], f[k][2], "BE")]

(* xs[0] with a default in place of the IndexError *)
list_first_default(xs) ==
    IF xs = <<>> THEN [ok |-> TRUE, val |-> Player(0, 0, {}, "BE")]
    ELSE [ok |-> TRUE, val |-> xs[1]]

(* xs[0]: the first element; IndexError on an empty list *)
list_first(xs) ==
    IF xs = <<>> THEN [ok |-> FALSE]
    ELSE [ok |-> TRUE, val |-> xs[1]]

py_max_first(a, b) == a

(* max(a, b) *)
py_max(a, b) == IF b > a THEN b ELSE a

(* round(x, 2) of a non-negative x in thousandths: the nearest hundredth, *)
(* a value halfway between two hundredths going to the even one.           *)
py_round2(x) ==
    LET q == x \div 10
        r == x % 10
    IN IF r < 5 THEN 10 * q
       ELSE IF r > 5 THEN 10 * (q + 1)
       ELSE IF q % 2 = 0 THEN 10 * q ELSE 10 * (q + 1)

(* get_best_trio: lines 54-61; the four lookups are evaluated in order and *)
(* the first empty one raises.                                             *)
get_best_trio(lineup) ==
    LET qb == list_first(get_top_players(lineup, "QB", 1))
        rb == list_first(get_top_players(lineup, "RB", 1))
        wr == list_first(get_top_players(lineup, "WR", 1))
        te == list_first(get_top_players(lineup, "TE", 1))
    IN IF qb.ok /\ rb.ok /\ wr.ok /\ te.ok
       THEN [kind |-> "num",
             value |-> py_round2(qb.val.points + rb.val.points
                                     + py_max(wr.val.points, te.val.points))]
       ELSE [kind |-> "raise", err |-> "IndexError"]

InitTrio ==
    /\ \E len \in 0..TrioPlayers :
          \E f \in [1..len -> TrioPoints \X TrioEligibleSlotSets] :
              heap = [arg |-> TrioLineup(f), cpy |-> <<>>]
    /\ roster_settings = [keys |-> <<>>, num |-> <<>>]
    /\ pc = "idle"
    /\ saved_roster = "none"
    /\ slots = <<>>
    /\ i = 0
    /\ best_lineup = <<>>
    /\ best_slots = <<>>
    /\ picked = <<>>
    /\ max_score = 0
    /\ efficiency = [kind |-> "none"]
    /\ err = "none"
    /\ top_call = [slot |-> "none", n |-> 0]
    /\ top_ret = <<>>
    /\ top_again = <<>>
    /\ best_trio = [kind |-> "none"]
    /\ LuckUnused
    /\ LeaderUnused

(* get_best_trio(league, lineup) *)
Call_get_best_trio ==
    /\ pc = "idle"
    /\ LET r == get_best_trio(heap.arg)
       IN IF r.kind = "num"
          THEN /\ best_trio' = r
               /\ pc' = "trio_done"
               /\ UNCHANGED err
          ELSE /\ err' = r.err
               /\ pc' = "raised"
               /\ UNCHANGED best_trio
    /\ UNCHANGED <<heap, roster_settings, saved_roster, slots, i, best_lineup,
                   best_slots, picked, max_score, efficiency, top_call, top_ret,
                   top_again>>
    /\ UNCHANGED luck_vars
    /\ UNCHANGED leader_vars

NextTrio == Call_get_best_trio

SpecTrio == InitTrio /\ [][NextTrio]_vars

-----------------------------------------------------------------------------
(* get_leader_str *)

MaxStats == 3

MaxStat == 2

(* The owner of the k-th entry of a stats list *)
Owners == <<"Ann", "Bo", "Cy", "Di", "Ed">>

(* Stats lists of at most n (owner, value) pairs *)
StatsLists(n) ==
    UNION { { [k \in 1..len |-> <<Owners[k], f[k]>>] : f \in [1..len -> 0..MaxStat] } :
            len \in 0..n }

(* Insert entry x into a list sorted by value, descending when reverse,   *)
(* behind every entry of the same value.                                   *)
InsertByStat(sorted, x, reverse) ==
    LET n == Cardinality({k \in 1..Len(sorted) :
                             IF reverse THEN sorted[k][2] >= x[2]
                                        ELSE sorted[k][2] <= x[2]})
    IN SubSeq(sorted, 1, n) \o <<x>> \o SubSeq(sorted, n + 1, Len(sorted))

RECURSIVE SortedByStat(_, _)
(* sorted(stats_list, key=lambda x: x[1], reverse=high_first): line 207 *)
SortedByStat(xs, reverse) ==
    IF xs = <<>> THEN <<>>
    ELSE InsertByStat(SortedByStat(SubSeq(xs, 1, Len(xs) - 1), reverse),
                      xs[Len(xs)], reverse)

RECURSIVE str_join(_, _)
(* sep.join(names) *)
str_join(sep, names) ==
    IF names = <<>> THEN ""
    ELSE IF Len(names) = 1 THEN names[1]
    ELSE names[1] \o sep \o str_join(sep, Tail(names))

RECURSIVE leader_loop(_, _, _)
(* The loop of lines 216-220 from index k on (k = i + 1); running off the *)
(* end of the list leaves the function without a return statement.         *)
leader_loop(sorted_stats_list, leaders, k) ==
    IF k > Len(sorted_stats_list) THEN [kind |-> "None"]
    ELSE IF sorted_stats_list[k][2] = sorted_stats_list[k - 1][2]
    THEN leader_loop(sorted_stats_list, Append(leaders, sorted_stats_list[k][1]), k + 1)
    ELSE [kind |-> "tuple", value |-> sorted_stats_list[1][2],
          leaders |-> str_join(", ", leaders)]

(* get_leader_str: lines 193-220 *)
get_leader_str(stats, high) ==
    LET sorted_stats_list == SortedByStat(stats, high)
    IN IF Len(sorted_stats_list) < 2
       THEN [kind |-> "raise", err |-> "IndexError"]
       ELSE IF sorted_stats_list[1][2] # sorted_stats_list[2][2]
       THEN [kind |-> "tuple", value |-> sorted_stats_list[1][2],
             leaders |-> sorted_stats_list[1][1]]
       ELSE leader_loop(sorted_stats_list, <<sorted_stats_list[1][1]>>, 2)

InitLeader ==
    /\ LineupUnused
    /\ LuckUnused
    /\ stats_list \in StatsLists(MaxStats)
    /\ high_first \in BOOLEAN
    /\ leader_ret = [kind |-> "none"]

(* get_leader_str(stats_list, high_first) *)
Call_get_leader_str ==
    /\ pc = "idle"
    /\ LET r == get_leader_str(stats_list, high_first)
       IN IF r.kind = "raise"
          THEN /\ err' = r.err
               /\ pc' = "raised"
               /\ UNCHANGED leader_ret
          ELSE /\ leader_ret' = r
               /\ pc' = "leader_done"
               /\ UNCHANGED err
    /\ UNCHANGED <<heap, roster_settings, saved_roster, slots, i, best_lineup,
                   best_slots, picked, max_score, efficiency, top_call, top_ret>>
    /\ UNCHANGED <<stats_list, high_first>>
    /\ UNCHANGED luck_vars
    /\ UNCHANGED trio_vars

NextLeader == Call_get_leader_str

SpecLeader == InitLeader /\ [][NextLeader]_vars

-----------------------------------------------------------------------------
(* The rank of a team in a week, counted from the scores *)
RankOf(lg, team, week) == 1 + StrictlyGreater(lg, team, week)

(* The week's opponent of the team of the call *)
OppOf(lg, team, week) == lg.teams[team].schedule[week]

(* The team's scores of weeks 1..week are all the same *)
FlatHistory(lg, team, week) ==
    \A w \in 1..week : lg.teams[team].scores[w] = lg.teams[team].scores[week]

(* C11: when the team and its opponent have the same rank, the schedule   *)
(* component is -(7/2)(n - rank)/(n - 1) for rank < n/2 and                *)
(* +(7/2)(rank - 1)/(n - 1) otherwise: half the losing, respectively the   *)
(* winning, term of that rank.                                             *)
C11_TieIsHalf ==
    pc = "luck_done" =>
        LET lg == league
            n == Len(lg.teams)
            rank == RankOf(lg, luck_call.team, luck_call.week)
            opp_rank == RankOf(lg, OppOf(lg, luck_call.team, luck_call.week),
                               luck_call.week)
        IN rank = opp_rank =>
              luck_call.luck_sched =
                  IF 2 * rank < n
                  THEN Rat(-w_sched * (n - rank), 2 * (n - 1))
                  ELSE Rat(w_sched * (rank - 1), 2 * (n - 1))

(* C12: a team ranked above its opponent has the schedule component       *)
(* +7(rank - 1)/(n - 1), never negative; a team ranked below has           *)
(* -7(n - rank)/(n - 1), never positive; with a flat score history the     *)
(* returned index is that component over 10.                               *)
C12_WinLoseTerms ==
    pc = "luck_done" =>
        LET lg == league
            n == Len(lg.teams)
            rank == RankOf(lg, luck_call.team, luck_call.week)
            opp_rank == RankOf(lg, OppOf(lg, luck_call.team, luck_call.week),
                               luck_call.week)
            win == Rat(w_sched * (rank - 1), n - 1)
            lose == Rat(-w_sched * (n - rank), n - 1)
        IN /\ rank < opp_rank =>
                /\ luck_call.luck_sched = win
                /\ luck_call.luck_sched[1] >= 0
                /\ FlatHistory(lg, luck_call.team, luck_call.week) =>
                       luck_ret = FromRat(RatDiv(win, Rat(10, 1)))
           /\ rank > opp_rank =>
                /\ luck_call.luck_sched = lose
                /\ luck_call.luck_sched[1] <= 0
                /\ FlatHistory(lg, luck_call.team, luck_call.week) =>
                       luck_ret = FromRat(RatDiv(lose, Rat(10, 1)))

(* The second-ranked of three teams beats the third: the component is 7/2 *)
C12_Witness ==
    /\ pc = "luck_done"
    /\ Len(league.teams) = 3
    /\ RankOf(league, luck_call.team, luck_call.week) = 2
    /\ RankOf(league, OppOf(league, luck_call.team, luck_call.week), luck_call.week) = 3
    /\ luck_call.luck_sched = Rat(7, 2)

(* C13: get_weekly_luck_index never divides by a zero standard deviation, *)
(* so the index it returns is always a defined, finite number.             *)
C13_AlwaysDefined ==
    pc = "luck_done" => luck_ret.kind = "num"

C17_TopPlayersIdempotent ==
    pc = "top_again" => top_again = top_ret

(* The first result holds two players with equal points *)
C17_Witness ==
    /\ pc = "top_again"
    /\ Len(top_ret) = 2
    /\ top_ret[1].points = top_ret[2].points
    /\ top_ret[1].id < top_ret[2].id
    /\ top_again = top_ret

(* The position of a slot label in the requirements mapping *)
KeyPos(keys, slot) == CHOOSE k \in 1..Len(keys) : keys[k] = slot

(* C18: get_best_lineup processes the starting slots by label length      *)
(* ascending, labels of equal length in the order of the mapping, each     *)
(* slot once; the players selected so far are out of the pool whenever a   *)
(* later slot is processed, so no longer label is filled before a shorter. *)
C18_SlotOrder ==
    pc \in {"best_loop", "best_done"} =>
        /\ \A a, b \in 1..Len(picked) :
              a < b =>
                 \/ Len(picked[a].slot) < Len(picked[b].slot)
                 \/ /\ Len(picked[a].slot) = Len(picked[b].slot)
                    /\ KeyPos(roster_settings.keys, picked[a].slot)
                          < KeyPos(roster_settings.keys, picked[b].slot)
        /\ \A k \in 1..Len(picked) :
              \A slot \in Range(roster_settings.keys) \ {picked[j].slot : j \in 1..k} :
                  \/ Len(picked[k].slot) < Len(slot)
                  \/ /\ Len(picked[k].slot) = Len(slot)
                     /\ KeyPos(roster_settings.keys, picked[k].slot)
                           < KeyPos(roster_settings.keys, slot)
        /\ pc = "best_done" => Len(picked) = Len(roster_settings.keys)
        /\ Range(best_lineup) \cap Range(heap[saved_roster]) = {}

(* The mapping lists WR/TE, RB/WR, RB: RB is filled first, then WR/TE,    *)
(* then RB/WR, and players were selected.                                  *)
C18_Witness ==
    /\ pc = "best_done"
    /\ roster_settings.keys = <<"WR/TE", "RB/WR", "RB">>
    /\ Len(picked) = 3
    /\ picked[1].slot = "RB"
    /\ picked[2].slot = "WR/TE"
    /\ picked[3].slot = "RB/WR"
    /\ Len(best_lineup) = 2
    /\ best_slots[1] = "RB"

(* The points of the lineup's players eligible for a slot *)
PointsOf(lineup, slot) ==
    {p.points : p \in {q \in Range(lineup) : slot \in q.eligibleSlots}}

(* The largest element of a non-empty set of numbers *)
MaxOf(S) == CHOOSE x \in S : \A y \in S : y <= x

(* QB + RB + max(WR, TE) over the highest points of each position *)
TrioTotal(lineup) ==
    LET wr == MaxOf(PointsOf(lineup, "WR"))
        te == MaxOf(PointsOf(lineup, "TE"))
    IN MaxOf(PointsOf(lineup, "QB")) + MaxOf(PointsOf(lineup, "RB"))
           + (IF wr >= te THEN wr ELSE te)

TrioComplete(lineup) ==
    \A slot \in {"QB", "RB", "WR", "TE"} : PointsOf(lineup, slot) # {}

(* C15: for a lineup with a player eligible for each of QB, RB, WR and TE *)
(* get_best_trio returns the highest QB points plus the highest RB points  *)
(* plus the larger of the highest WR and TE points, rounded to 2 decimal   *)
(* places: a whole number of hundredths, the nearest to the exact total.   *)
C15_BestTrio ==
    (pc \in {"trio_done", "raised"} /\ TrioComplete(heap.arg)) =>
        /\ pc = "trio_done"
        /\ best_trio.kind = "num"
        /\ best_trio.value % 10 = 0
        /\ 2 * best_trio.value - 2 * TrioTotal(heap.arg) \in -10..10

(* The best TE outscores the best WR and the total is rounded up *)
C15_Witness ==
    /\ pc = "trio_done"
    /\ MaxOf(PointsOf(heap.arg, "TE")) > MaxOf(PointsOf(heap.arg, "WR"))
    /\ TrioTotal(heap.arg) = 4016
    /\ best_trio.value = 4020

(* C16: get_best_trio raises, and returns no value, whenever the lineup   *)
(* has no player eligible for one of QB, RB, WR, TE, also when only the TE *)
(* or only the WR is missing.                                              *)
C16_TrioFails ==
    (pc \in {"trio_done", "raised"} /\ ~TrioComplete(heap.arg)) =>
        /\ pc = "raised"
        /\ err = "IndexError"
        /\ best_trio.kind = "none"

(* A lineup with a QB, an RB and a WR but no TE raises *)
C16_Witness ==
    /\ pc = "raised"
    /\ err = "IndexError"
    /\ PointsOf(heap.arg, "QB") # {}
    /\ PointsOf(heap.arg, "RB") # {}
    /\ PointsOf(heap.arg, "WR") # {}
    /\ PointsOf(heap.arg, "TE") = {}
    /\ best_trio.kind = "none"

(* The best value of a stats list *)
BestStat(stats, high) ==
    CHOOSE v \in {stats[k][2] : k \in 1..Len(stats)} :
        \A k \in 1..Len(stats) : IF high THEN stats[k][2] <= v ELSE stats[k][2] >= v

(* The owners whose value is the best value *)
Leaders(stats, high) ==
    {stats[k][1] : k \in {j \in 1..Len(stats) : stats[j][2] = BestStat(stats, high)}}

(* C20: for a stats list of at least two entries get_leader_str returns   *)
(* the best value (highest when high_first, lowest otherwise) and the      *)
(* names of exactly the owners whose value is the best, also when every    *)
(* entry has the best value.                                               *)
C20_LeadersReturned ==
    (pc = "leader_done" /\ Len(stats_list) >= 2) =>
        /\ leader_ret.kind = "tuple"
        /\ leader_ret.value = BestStat(stats_list, high_first)
        /\ \E names \in DistinctSeqs(Leaders(stats_list, high_first)) :
              /\ Len(names) = Cardinality(Leaders(stats_list, high_first))
              /\ leader_ret.leaders = str_join(", ", names)

====
